---- MODULE Spec2Model ----
(***************************************************************************)
(* The vote store (Pinia setup store appended to src/src/types/index.ts)   *)
(* and the API adapter it calls (src/src/services/api.service.ts).         *)
(*                                                                         *)
(* Every async store action is split at its awaits: the synchronous part   *)
(* up to the adapter call is one step, each continuation is another, and   *)
(* any other store action may run in between (JavaScript runs a handler to *)
(* its first await, then whatever is queued next).                         *)
(***************************************************************************)
EXTENDS Integers, Sequences, FiniteSets, Bags, TLC

\* ---------------------------------------------------------------- bounds

\* Async store calls that may be awaiting at the same time.
MaxCalls == 2
\* Candidate ids a caller may pass to selectCandidate: 0..MaxCandidateId.
MaxCandidateId == 2

\* ------------------------------------------------------------ value space

\* enum VoteStep
VERIFICATION == 0
VOTE == 1
CONFIRMATION == 2
SUCCESS == 3
VoteStep == {VERIFICATION, VOTE, CONFIRMATION, SUCCESS}

\* JavaScript null, for the string-typed refs (error) and for File | null.
Null == "<null>"
\* JavaScript null for selectedCandidateId (number | null).
NullId == -1
\* isEligible is boolean | null.
EligNull == "null"
EligTrue == "true"
EligFalse == "false"
EligOf(b) == IF b THEN EligTrue ELSE EligFalse

CandidateIds == 0..MaxCandidateId
\* Card numbers a caller passes to saveVerificationData / checkEligibility.
CardNumbers == {"V0074266698"}
\* Files a caller passes to saveVerificationData.
Files == {"card.jpg"}
\* Vote ids the remote service hands out.
VoteIds == {"VOTE-1", "VOTE-2"}
\* Candidate lists (ids only) the remote service answers GET /candidates with.
ServerCandidateLists == {<< >>, <<0, 1>>}

\* Messages written by the store (accents dropped).
MsgEligibilityFallback == "Erreur lors de la verification d'eligibilite"
MsgNotEligible == "Ce numero de carte a deja vote ou n'est pas eligible"
MsgVerificationFallback == "Erreur lors de la verification"
MsgLoadFallback == "Erreur lors du chargement des candidats"
MsgNoCandidate == "Veuillez selectionner un candidat"
MsgCannotSubmit == "Impossible de soumettre le vote"
MsgSubmitRefused == "Soumission du vote echouee"
MsgSubmitFallback == "Erreur lors de la soumission du vote"
\* Messages written by the adapter.
MsgUnknown == "Erreur inconnue"
MsgCandidatesHttp == "Erreur lors du chargement des candidats"
MsgCheckFallback == "Erreur lors de la verification"
MsgCandidateHttp == "Candidat non trouve"
\* Messages of exceptions raised by the JavaScript runtime.
MsgUndefinedTrim == "Cannot read properties of undefined (reading 'trim')"
MsgNotAFunction == "voterName.trim is not a function"
MsgFailedToFetch == "Failed to fetch"
MsgBadJson == "Unexpected token < in JSON"
MsgUndefinedValues == "Cannot convert undefined or null to object"
MsgUndefinedId == "Cannot read properties of undefined (reading 'id')"
\* Messages the remote service sends.
MsgServerIneligible == "Vous avez deja vote"
MsgServerRefused == "Vote refuse"

\* JavaScript's  a || b  on strings: the empty string is falsy.
OrElse(a, b) == IF a = "" THEN b ELSE a

\* ------------------------------------------------- JavaScript argument values

JsString(s) == [t |-> "string", v |-> s]
JsFile(f) == [t |-> "File", v |-> f]
JsUndefined == [t |-> "undefined", v |-> ""]

\* x.trim() throws a TypeError unless x is a string.
TrimThrows(x) == x.t # "string"
TrimErrorMessage(x) == IF x.t = "undefined" THEN MsgUndefinedTrim ELSE MsgNotAFunction

\* ------------------------------------------------------- the remote service

\* A parsed JSON body; a field the service left out reads as "" / FALSE / << >>.
Body(success, message, eligible, voteId, hasErrors, errors, list) ==
    [success |-> success, message |-> message, eligible |-> eligible,
     voteId |-> voteId, hasErrors |-> hasErrors, errors |-> errors, list |-> list]
EmptyBody == Body(FALSE, "", FALSE, "", FALSE, << >>, << >>)
\* JavaScript null in the data field of an ApiError.
NullData == [EmptyBody EXCEPT !.message = Null]

\* What fetch() and response.json() give: net = FALSE is a transport failure
\* (fetch rejects), parsable = FALSE a body response.json() cannot parse.
Response(net, status, parsable, body) ==
    [net |-> net, status |-> status, parsable |-> parsable, body |-> body]
NoResponse == Response(FALSE, 0, FALSE, EmptyBody)
UnparsableResponse(status) == Response(TRUE, status, FALSE, EmptyBody)
JsonResponse(status, body) == Response(TRUE, status, TRUE, body)

\* response.ok
ResponseOk(r) == r.status >= 200 /\ r.status <= 299

CandidateResponses ==
    {NoResponse}
    \cup {UnparsableResponse(s) : s \in {200}}
    \cup {JsonResponse(s, [EmptyBody EXCEPT !.success = TRUE, !.list = l]) :
            s \in {200, 500}, l \in ServerCandidateLists}

EligibilityResponses ==
    {NoResponse}
    \cup {UnparsableResponse(s) : s \in {200}}
    \cup {JsonResponse(s, [EmptyBody EXCEPT !.success = ok, !.eligible = e, !.message = m]) :
            s \in {200, 500}, ok \in BOOLEAN, e \in BOOLEAN,
            m \in {"", MsgServerIneligible}}

\* The per-field error maps of an HTTP 422 answer, as the list of the fields'
\* message lists in field order.
ServerErrorMaps == {<< >>, <<<<"required">>, <<"invalid", "too long">>>>}

VoteResponses ==
    {NoResponse}
    \cup {UnparsableResponse(s) : s \in {200, 500}}
    \cup {JsonResponse(s, [EmptyBody EXCEPT !.success = ok, !.message = m, !.voteId = v]) :
            s \in {200, 500}, ok \in BOOLEAN, m \in {"", MsgServerRefused}, v \in VoteIds}
    \cup {JsonResponse(422, [EmptyBody EXCEPT !.message = m, !.hasErrors = TRUE, !.errors = e]) :
            m \in {"", MsgServerRefused}, e \in ServerErrorMaps}
    \cup {JsonResponse(422, [EmptyBody EXCEPT !.message = MsgServerRefused])}

\* ----------------------------------------------------------- the API adapter

\* A value thrown inside an adapter operation: an Error object (response =
\* FALSE, message set) or the literal {response: {status, data}} (message
\* undefined, read as "").
ErrorObject(message) ==
    [response |-> FALSE, status |-> 0, data |-> NullData, message |-> message]
ResponseError(status, data) ==
    [response |-> TRUE, status |-> status, data |-> data, message |-> ""]

\* What an adapter operation settles with: resolved (ok) with a value, or
\* rejected with err, whose shape is "ApiError" ({status, message, data}) or
\* the name of the exception that escaped.
Resolved(value) == [ok |-> TRUE, value |-> value,
                    err |-> [shape |-> "none", status |-> 0, message |-> "", data |-> NullData]]
Rejected(err) == [ok |-> FALSE, value |-> EmptyBody, err |-> err]

ApiError(status, message, data) ==
    [shape |-> "ApiError", status |-> status, message |-> message, data |-> data]
TypeError(message) ==
    [shape |-> "TypeError", status |-> 0, message |-> message, data |-> NullData]

\* handleApiError: always throws the ApiError it builds.
handleApiError(error) ==
    ApiError(IF error.response THEN error.status ELSE 0,
             OrElse(OrElse(IF error.response THEN error.data.message ELSE "",
                           error.message),
                    MsgUnknown),
             IF error.response THEN error.data ELSE NullData)

\* apiService.getCandidates
apiGetCandidates(r) ==
    IF ~r.net THEN Rejected(handleApiError(ErrorObject(MsgFailedToFetch)))
    ELSE IF ~ResponseOk(r) THEN Rejected(handleApiError(ErrorObject(MsgCandidatesHttp)))
    ELSE IF ~r.parsable THEN Rejected(handleApiError(ErrorObject(MsgBadJson)))
    ELSE Resolved([EmptyBody EXCEPT !.list = r.body.list])

\* apiService.getCandidateById; the body's candidate is its list's first entry,
\* and reading the id of a candidate the body lacks throws inside the try.
apiGetCandidateById(candidateId, r) ==
    IF ~r.net THEN Rejected(handleApiError(ErrorObject(MsgFailedToFetch)))
    ELSE IF ~ResponseOk(r) THEN Rejected(handleApiError(ErrorObject(MsgCandidateHttp)))
    ELSE IF ~r.parsable THEN Rejected(handleApiError(ErrorObject(MsgBadJson)))
    ELSE IF r.body.list = << >> THEN Rejected(handleApiError(ErrorObject(MsgUndefinedId)))
    ELSE Resolved([EmptyBody EXCEPT !.list = <<Head(r.body.list)>>])

\* The request is built, and fetch called, only if building the body did not throw.
apiCheckEligibilitySends(cardNumber, name) == ~TrimThrows(name)

\* apiService.checkEligibility
apiCheckEligibility(cardNumber, name, r) ==
    IF TrimThrows(name) THEN Rejected(handleApiError(ErrorObject(TrimErrorMessage(name))))
    ELSE IF ~r.net THEN Rejected(handleApiError(ErrorObject(MsgFailedToFetch)))
    ELSE IF ~ResponseOk(r)
        THEN Rejected(handleApiError(ErrorObject("HTTP " \o ToString(r.status) \o ": ")))
    ELSE IF ~r.parsable THEN Rejected(handleApiError(ErrorObject(MsgBadJson)))
    ELSE IF ~r.body.success
        THEN Rejected(handleApiError(ErrorObject(OrElse(r.body.message, MsgCheckFallback))))
    ELSE Resolved([EmptyBody EXCEPT !.eligible = r.body.eligible,
                                    !.message = r.body.message])

\* Object.values(errors).flat()
RECURSIVE Flat(_)
Flat(errors) ==
    IF errors = << >> THEN << >> ELSE Head(errors) \o Flat(Tail(errors))

\* errorMessages.join(', ')
RECURSIVE Join(_)
Join(messages) ==
    IF messages = << >> THEN ""
    ELSE IF Len(messages) = 1 THEN messages[1]
    ELSE messages[1] \o ", " \o Join(Tail(messages))

apiSubmitVoteSends(voterCardNumber, voterName, candidateId) == ~TrimThrows(voterName)

\* The catch block of apiService.submitVote.
apiSubmitVoteCatch(error) ==
    IF error.response /\ error.status = 422
    THEN IF ~error.data.hasErrors
         THEN Rejected(TypeError(MsgUndefinedValues))
         ELSE Rejected(ApiError(422, Join(Flat(error.data.errors)), error.data))
    ELSE Rejected(handleApiError(error))

\* apiService.submitVote
apiSubmitVote(voterCardNumber, voterName, candidateId, r) ==
    IF TrimThrows(voterName) THEN apiSubmitVoteCatch(ErrorObject(TrimErrorMessage(voterName)))
    ELSE IF ~r.net THEN apiSubmitVoteCatch(ErrorObject(MsgFailedToFetch))
    ELSE IF ~r.parsable THEN apiSubmitVoteCatch(ErrorObject(MsgBadJson))
    ELSE IF ~ResponseOk(r) \/ ~r.body.success
        THEN apiSubmitVoteCatch(ResponseError(r.status, r.body))
    ELSE Resolved([EmptyBody EXCEPT !.success = r.body.success,
                                    !.message = r.body.message,
                                    !.voteId = r.body.voteId])

\* ------------------------------------------------------------ the vote store

VARIABLES
    currentStep,          \* ref<VoteStep>
    voterCardNumber,      \* ref<string>
    voterCardImage,       \* ref<File | null>
    candidates,           \* ref<Candidate[]>, the candidates' ids
    selectedCandidateId,  \* ref<number | null>
    confirmationNumber,   \* ref<string>
    isLoading,            \* ref<boolean>
    error,                \* ref<string | null>
    isEligible,           \* ref<boolean | null>
    calls,                \* the async store calls that are awaiting (a bag)
    ev,                   \* the store step taken last (history)
    accepted,             \* the vote id of the response with success = true that a
                          \* submitVote call received since the last resetVote (history)
    loaded                \* a loadCandidates call has resolved since the store was
                          \* constructed (history)

store == <<currentStep, voterCardNumber, voterCardImage, candidates,
           selectedCandidateId, confirmationNumber, isLoading, error, isEligible>>
vars == <<currentStep, voterCardNumber, voterCardImage, candidates,
          selectedCandidateId, confirmationNumber, isLoading, error, isEligible,
          calls, ev, accepted, loaded>>

\* An awaiting call. stage "api": awaiting the adapter; stage "checked" (of
\* saveVerificationData): the store's checkEligibility has returned `eligible`
\* and the caller's await on it has not resumed yet. sent: the adapter issued
\* its HTTP request.
Call(kind, cardNum, cardImg, name, candId, sent) ==
    [kind |-> kind, stage |-> "api", cardNum |-> cardNum, cardImg |-> cardImg,
     name |-> name, candId |-> candId, sent |-> sent, eligible |-> FALSE]

\* No call: the `call` of a step of a synchronous action.
NoCall == Call("none", "", Null, JsUndefined, NullId, FALSE)

\* No outcome: the `out` of a step that consumed no adapter outcome.
NoOutcome == [ok |-> FALSE, value |-> EmptyBody,
              err |-> [shape |-> "none", status |-> 0, message |-> "", data |-> NullData]]

\* A store step: the action, its phase ("call": up to the first await or the
\* return; "checked", "settle": a continuation), how it ended ("pending" when it
\* awaits), the awaiting call it started or resumed, as it was after the step,
\* and the adapter outcome the step resumed on.
Event(op, phase, res, call, out) ==
    [op |-> op, phase |-> phase, res |-> res, call |-> call, out |-> out]

\* The awaiting calls once call c has ended, and once it has become d.
Remove(cs, c) == cs (-) SetToBag({c})
Replace(cs, c, d) == (cs (-) SetToBag({c})) (+) SetToBag({d})
\* The awaiting calls once call c is made.
Add(cs, c) == cs (+) SetToBag({c})
Awaiting == BagCardinality(calls)

\* The state after construction.
Init ==
    /\ currentStep = VERIFICATION
    /\ voterCardNumber = ""
    /\ voterCardImage = Null
    /\ candidates = << >>
    /\ selectedCandidateId = NullId
    /\ confirmationNumber = ""
    /\ isLoading = FALSE
    /\ error = Null
    /\ isEligible = EligNull
    /\ calls = EmptyBag
    /\ ev = Event("init", "", "", NoCall, NoOutcome)
    /\ accepted = Null
    /\ loaded = FALSE

\* ---- getters

isVoterVerified == voterCardNumber # "" /\ voterCardImage # Null

\* candidates.find(c => c.id === id) || null, as the found id or NullId
Find(list, id) ==
    IF \E k \in DOMAIN list : list[k] = id THEN id ELSE NullId

\* !selectedCandidateId.value is true for null and for 0.
selectedCandidate ==
    IF selectedCandidateId = NullId \/ selectedCandidateId = 0 THEN NullId
    ELSE Find(candidates, selectedCandidateId)

\* canSubmitVote without its last conjunct.
canSubmitVote_NoEligibility ==
    /\ isVoterVerified
    /\ selectedCandidateId # NullId
    /\ ~isLoading

canSubmitVote ==
    /\ isVoterVerified
    /\ selectedCandidateId # NullId
    /\ ~isLoading
    /\ isEligible = EligTrue

\* ---- the store's checkEligibility, after its await on the adapter

\* The second argument the store passes to apiService.checkEligibility: none.
checkEligibilityName == JsUndefined

checkEligibilityResult(out) == out.ok /\ out.value.eligible
checkEligibilityIsEligible(out) ==
    IF out.ok THEN EligOf(out.value.eligible) ELSE EligFalse
checkEligibilityError(out, before) ==
    IF out.ok
    THEN IF ~out.value.eligible THEN out.value.message ELSE before
    ELSE OrElse(out.err.message, MsgEligibilityFallback)

\* The answers the remote service may give to a call: any, if the adapter
\* sent its request; nothing to answer otherwise.
Answers(c, responses) == IF c.sent THEN responses ELSE {NoResponse}

\* ---- actions

\* checkEligibility(cardNum), up to its await on the adapter.
checkEligibility(cardNum) ==
    /\ Awaiting < MaxCalls
    /\ LET c == Call("checkEligibility", cardNum, Null, checkEligibilityName, NullId,
                     apiCheckEligibilitySends(cardNum, checkEligibilityName)) IN
       /\ calls' = Add(calls, c)
       /\ ev' = Event("checkEligibility", "call", "pending", c, NoOutcome)
    /\ UNCHANGED <<store, accepted, loaded>>

\* checkEligibility, from the adapter's answer to its return.
checkEligibilitySettle(c, r) ==
    LET out == apiCheckEligibility(c.cardNum, c.name, r) IN
    /\ isEligible' = checkEligibilityIsEligible(out)
    /\ error' = checkEligibilityError(out, error)
    /\ calls' = Remove(calls, c)
    /\ ev' = Event("checkEligibility", "settle", "resolved", c, out)
    /\ UNCHANGED <<currentStep, voterCardNumber, voterCardImage, candidates,
                   selectedCandidateId, confirmationNumber, isLoading, accepted, loaded>>

\* saveVerificationData(cardNum, cardImg), up to the await in checkEligibility.
saveVerificationData(cardNum, cardImg) ==
    /\ Awaiting < MaxCalls
    /\ isLoading' = TRUE
    /\ error' = Null
    /\ LET c == Call("saveVerificationData", cardNum, cardImg, checkEligibilityName,
                     NullId, apiCheckEligibilitySends(cardNum, checkEligibilityName)) IN
       /\ calls' = Add(calls, c)
       /\ ev' = Event("saveVerificationData", "call", "pending", c, NoOutcome)
    /\ UNCHANGED <<currentStep, voterCardNumber, voterCardImage, candidates,
                   selectedCandidateId, confirmationNumber, isEligible, accepted, loaded>>

\* saveVerificationData: the checkEligibility it awaits runs from the adapter's
\* answer to its return.
saveVerificationDataChecked(c, r) ==
    LET out == apiCheckEligibility(c.cardNum, c.name, r)
        d == [c EXCEPT !.stage = "checked", !.eligible = checkEligibilityResult(out)] IN
    /\ isEligible' = checkEligibilityIsEligible(out)
    /\ error' = checkEligibilityError(out, error)
    /\ calls' = Replace(calls, c, d)
    /\ ev' = Event("saveVerificationData", "checked", "pending", d, out)
    /\ UNCHANGED <<currentStep, voterCardNumber, voterCardImage, candidates,
                   selectedCandidateId, confirmationNumber, isLoading, accepted, loaded>>

\* saveVerificationDataSettle without the throw on an ineligible result.
saveVerificationDataSettle_NoThrow(c) ==
    /\ voterCardNumber' = c.cardNum
    /\ voterCardImage' = c.cardImg
    /\ currentStep' = VOTE
    /\ error' = error
    /\ isLoading' = FALSE
    /\ calls' = Remove(calls, c)
    /\ ev' = Event("saveVerificationData", "settle", "resolved", c, NoOutcome)
    /\ UNCHANGED <<candidates, selectedCandidateId, confirmationNumber, isEligible,
                   accepted, loaded>>

\* saveVerificationData, from the return of checkEligibility to its end.
saveVerificationDataSettle(c) ==
    /\ IF c.eligible
       THEN /\ voterCardNumber' = c.cardNum
            /\ voterCardImage' = c.cardImg
            /\ currentStep' = VOTE
            /\ error' = error
       ELSE /\ error' = OrElse(MsgNotEligible, MsgVerificationFallback)
            /\ UNCHANGED <<voterCardNumber, voterCardImage, currentStep>>
    /\ isLoading' = FALSE
    /\ calls' = Remove(calls, c)
    /\ ev' = Event("saveVerificationData", "settle",
                   IF c.eligible THEN "resolved" ELSE "rejected", c, NoOutcome)
    /\ UNCHANGED <<candidates, selectedCandidateId, confirmationNumber, isEligible,
                   accepted, loaded>>

\* loadCandidates, up to its await on the adapter.
loadCandidates ==
    /\ Awaiting < MaxCalls
    /\ isLoading' = TRUE
    /\ error' = Null
    /\ LET c == Call("loadCandidates", "", Null, JsUndefined, NullId, TRUE) IN
       /\ calls' = Add(calls, c)
       /\ ev' = Event("loadCandidates", "call", "pending", c, NoOutcome)
    /\ UNCHANGED <<currentStep, voterCardNumber, voterCardImage, candidates,
                   selectedCandidateId, confirmationNumber, isEligible, accepted, loaded>>

\* loadCandidatesSettle with isLoading unset on the success path only.
loadCandidatesSettle_NoFinally(c, r) ==
    LET out == apiGetCandidates(r) IN
    /\ IF out.ok
       THEN candidates' = out.value.list /\ error' = error /\ isLoading' = FALSE
       ELSE /\ candidates' = candidates
            /\ error' = OrElse(out.err.message, MsgLoadFallback)
            /\ isLoading' = isLoading
    /\ calls' = Remove(calls, c)
    /\ ev' = Event("loadCandidates", "settle",
                   IF out.ok THEN "resolved" ELSE "rejected", c, out)
    /\ loaded' = (loaded \/ out.ok)
    /\ UNCHANGED <<currentStep, voterCardNumber, voterCardImage, selectedCandidateId,
                   confirmationNumber, isEligible, accepted>>

\* loadCandidates, from the adapter's answer to its end.
loadCandidatesSettle(c, r) ==
    LET out == apiGetCandidates(r) IN
    /\ IF out.ok
       THEN candidates' = out.value.list /\ error' = error
       ELSE candidates' = candidates /\ error' = OrElse(out.err.message, MsgLoadFallback)
    /\ isLoading' = FALSE
    /\ calls' = Remove(calls, c)
    /\ ev' = Event("loadCandidates", "settle",
                   IF out.ok THEN "resolved" ELSE "rejected", c, out)
    /\ loaded' = (loaded \/ out.ok)
    /\ UNCHANGED <<currentStep, voterCardNumber, voterCardImage, selectedCandidateId,
                   confirmationNumber, isEligible, accepted>>

selectCandidate(candidateId) ==
    /\ selectedCandidateId' = candidateId
    /\ error' = Null
    /\ calls' = calls
    /\ ev' = Event("selectCandidate", "call", "resolved", NoCall, NoOutcome)
    /\ UNCHANGED <<currentStep, voterCardNumber, voterCardImage, candidates,
                   confirmationNumber, isLoading, isEligible, accepted, loaded>>

\* goToConfirmation testing the id for truthiness, so that id 0 counts as none.
goToConfirmation_Truthy ==
    /\ IF selectedCandidateId # NullId /\ selectedCandidateId # 0
       THEN currentStep' = CONFIRMATION /\ error' = Null
       ELSE currentStep' = currentStep /\ error' = MsgNoCandidate
    /\ calls' = calls
    /\ ev' = Event("goToConfirmation", "call", "resolved", NoCall, NoOutcome)
    /\ UNCHANGED <<voterCardNumber, voterCardImage, candidates, selectedCandidateId,
                   confirmationNumber, isLoading, isEligible, accepted, loaded>>

goToConfirmation ==
    /\ IF selectedCandidateId # NullId
       THEN currentStep' = CONFIRMATION /\ error' = Null
       ELSE currentStep' = currentStep /\ error' = MsgNoCandidate
    /\ calls' = calls
    /\ ev' = Event("goToConfirmation", "call", "resolved", NoCall, NoOutcome)
    /\ UNCHANGED <<voterCardNumber, voterCardImage, candidates, selectedCandidateId,
                   confirmationNumber, isLoading, isEligible, accepted, loaded>>

backToVote ==
    /\ currentStep' = VOTE
    /\ error' = Null
    /\ calls' = calls
    /\ ev' = Event("backToVote", "call", "resolved", NoCall, NoOutcome)
    /\ UNCHANGED <<voterCardNumber, voterCardImage, candidates, selectedCandidateId,
                   confirmationNumber, isLoading, isEligible, accepted, loaded>>

\* The second argument the store passes to apiService.submitVote: the card image.
submitVoteName == JsFile(voterCardImage)

\* submitVote, up to its early return or its await on the adapter.
submitVote ==
    /\ canSubmitVote => Awaiting < MaxCalls
    /\ IF ~canSubmitVote
       THEN /\ error' = MsgCannotSubmit
            /\ isLoading' = isLoading
            /\ calls' = calls
            /\ ev' = Event("submitVote", "call", "resolved", NoCall, NoOutcome)
       ELSE LET c == Call("submitVote", voterCardNumber, voterCardImage, submitVoteName,
                          selectedCandidateId,
                          apiSubmitVoteSends(voterCardNumber, submitVoteName,
                                             selectedCandidateId)) IN
            /\ isLoading' = TRUE
            /\ error' = Null
            /\ calls' = Add(calls, c)
            /\ ev' = Event("submitVote", "call", "pending", c, NoOutcome)
    /\ UNCHANGED <<currentStep, voterCardNumber, voterCardImage, candidates,
                   selectedCandidateId, confirmationNumber, isEligible, accepted, loaded>>

\* submitVote, from the adapter's answer to its end.
submitVoteSettle(c, r) ==
    LET out == apiSubmitVote(c.cardNum, c.name, c.candId, r)
        success == out.ok /\ out.value.success IN
    /\ IF success
       THEN /\ confirmationNumber' = out.value.voteId
            /\ currentStep' = SUCCESS
            /\ accepted' = out.value.voteId
            /\ error' = error
       ELSE /\ error' = IF out.ok THEN OrElse(OrElse(out.value.message, MsgSubmitRefused),
                                              MsgSubmitFallback)
                        ELSE OrElse(out.err.message, MsgSubmitFallback)
            /\ UNCHANGED <<confirmationNumber, currentStep, accepted>>
    /\ isLoading' = FALSE
    /\ calls' = Remove(calls, c)
    /\ ev' = Event("submitVote", "settle",
                   IF success THEN "resolved" ELSE "rejected", c, out)
    /\ UNCHANGED <<voterCardNumber, voterCardImage, candidates, selectedCandidateId,
                   isEligible, loaded>>

\* resetVote without the reset of isEligible.
resetVote_KeepsEligibility ==
    /\ currentStep' = VERIFICATION
    /\ voterCardNumber' = ""
    /\ voterCardImage' = Null
    /\ selectedCandidateId' = NullId
    /\ confirmationNumber' = ""
    /\ error' = Null
    /\ isLoading' = FALSE
    /\ accepted' = Null
    /\ calls' = calls
    /\ ev' = Event("resetVote", "call", "resolved", NoCall, NoOutcome)
    /\ UNCHANGED <<candidates, isEligible, loaded>>

resetVote ==
    /\ currentStep' = VERIFICATION
    /\ voterCardNumber' = ""
    /\ voterCardImage' = Null
    /\ selectedCandidateId' = NullId
    /\ confirmationNumber' = ""
    /\ error' = Null
    /\ isLoading' = FALSE
    /\ isEligible' = EligNull
    /\ accepted' = Null
    /\ calls' = calls
    /\ ev' = Event("resetVote", "call", "resolved", NoCall, NoOutcome)
    /\ UNCHANGED <<candidates, loaded>>

\* Messages a caller passes to setError.
CallerMessages == {"Erreur de verification"}

setError(message) ==
    /\ error' = message
    /\ calls' = calls
    /\ ev' = Event("setError", "call", "resolved", NoCall, NoOutcome)
    /\ UNCHANGED <<currentStep, voterCardNumber, voterCardImage, candidates,
                   selectedCandidateId, confirmationNumber, isLoading, isEligible,
                   accepted, loaded>>

clearError ==
    /\ error' = Null
    /\ calls' = calls
    /\ ev' = Event("clearError", "call", "resolved", NoCall, NoOutcome)
    /\ UNCHANGED <<currentStep, voterCardNumber, voterCardImage, candidates,
                   selectedCandidateId, confirmationNumber, isLoading, isEligible,
                   accepted, loaded>>

setStep(step) ==
    /\ currentStep' = step
    /\ calls' = calls
    /\ ev' = Event("setStep", "call", "resolved", NoCall, NoOutcome)
    /\ UNCHANGED <<voterCardNumber, voterCardImage, candidates, selectedCandidateId,
                   confirmationNumber, isLoading, error, isEligible, accepted, loaded>>

\* The continuation of awaiting call c that runs next, on the answer r of the
\* remote service where the continuation is the adapter's.
Resume(c, r) ==
    IF c.kind = "checkEligibility" THEN checkEligibilitySettle(c, r)
    ELSE IF c.kind = "saveVerificationData"
        THEN IF c.stage = "api" THEN saveVerificationDataChecked(c, r)
             ELSE saveVerificationDataSettle(c)
    ELSE IF c.kind = "loadCandidates" THEN loadCandidatesSettle(c, r)
    ELSE submitVoteSettle(c, r)

\* The answers call c may get.
AnswersOf(c) ==
    IF c.kind = "loadCandidates" THEN Answers(c, CandidateResponses)
    ELSE IF c.kind = "submitVote" THEN Answers(c, VoteResponses)
    ELSE IF c.stage = "api" THEN Answers(c, EligibilityResponses)
    ELSE {NoResponse}

Next ==
    \/ \E n \in CardNumbers : checkEligibility(n)
    \/ \E n \in CardNumbers, f \in Files : saveVerificationData(n, f)
    \/ loadCandidates
    \/ \E id \in CandidateIds : selectCandidate(id)
    \/ goToConfirmation
    \/ backToVote
    \/ submitVote
    \/ resetVote
    \/ \E m \in CallerMessages : setError(m)
    \/ clearError
    \/ \E s \in VoteStep : setStep(s)
    \/ \E c \in BagToSet(calls) : \E r \in AnswersOf(c) : Resume(c, r)

\* The store from its construction, under any sequence of its exported actions
\* and any answers of the remote service.
Spec == Init /\ [][Next]_vars

\* The store at rest with any ballot in its refs: the refs are returned by the
\* store beside its actions and are writable by its users, so a call of an
\* action may find any values of their types in them. The constructed store
\* (Init) is one of these states: what holds under SpecAnyBallot holds under Spec.
InitAnyBallot ==
    /\ currentStep \in VoteStep
    /\ voterCardNumber \in {""} \cup CardNumbers
    /\ voterCardImage \in {Null} \cup Files
    /\ candidates = << >>
    /\ selectedCandidateId \in {NullId} \cup CandidateIds
    /\ confirmationNumber \in {"", "VOTE-1"}
    /\ isLoading = FALSE
    /\ error = Null
    /\ isEligible \in {EligNull, EligTrue, EligFalse}
    /\ calls = EmptyBag
    /\ ev = Event("init", "", "", NoCall, NoOutcome)
    /\ accepted = Null
    /\ loaded = FALSE

SpecAnyBallot == InitAnyBallot /\ [][Next]_vars

\* ------------------------------------------- the adapter, called directly

\* Names a caller passes to the adapter: a string, nothing, or a File.
VoterNames == {JsString("Jean Dupont"), JsUndefined, JsFile("card.jpg")}

\* What GET /candidates/:id is answered with.
CandidateByIdResponses ==
    {NoResponse, UnparsableResponse(200)}
    \cup {JsonResponse(s, [EmptyBody EXCEPT !.success = TRUE, !.list = l]) :
            s \in {200, 404}, l \in ServerCandidateLists}

\* The last step when it is a call of adapter operation op with the arguments
\* in c, answered with r and settled with out.
AdapterEvent(op, c, r, out) ==
    [op |-> op, phase |-> "adapter", res |-> IF out.ok THEN "resolved" ELSE "rejected",
     call |-> c, out |-> out, r |-> r]

\* A caller's apiService.getCandidates().
CallGetCandidates(r) ==
    /\ ev' = AdapterEvent("getCandidates",
                          Call("getCandidates", "", Null, JsUndefined, NullId, TRUE),
                          r, apiGetCandidates(r))
    /\ UNCHANGED <<store, calls, accepted, loaded>>

\* A caller's apiService.getCandidateById(candidateId).
CallGetCandidateById(candidateId, r) ==
    /\ ev' = AdapterEvent("getCandidateById",
                          Call("getCandidateById", "", Null, JsUndefined, candidateId, TRUE),
                          r, apiGetCandidateById(candidateId, r))
    /\ UNCHANGED <<store, calls, accepted, loaded>>

\* A caller's apiService.checkEligibility(cardNumber, voterName).
CallCheckEligibility(cardNumber, voterName) ==
    LET c == Call("checkEligibility", cardNumber, Null, voterName, NullId,
                  apiCheckEligibilitySends(cardNumber, voterName)) IN
    \E r \in Answers(c, EligibilityResponses) :
        /\ ev' = AdapterEvent("checkEligibility", c, r,
                              apiCheckEligibility(cardNumber, voterName, r))
        /\ UNCHANGED <<store, calls, accepted, loaded>>

\* A caller's apiService.submitVote(cardNumber, voterName, candidateId).
CallSubmitVote(cardNumber, voterName, candidateId) ==
    LET c == Call("submitVote", cardNumber, Null, voterName, candidateId,
                  apiSubmitVoteSends(cardNumber, voterName, candidateId)) IN
    \E r \in Answers(c, VoteResponses) :
        /\ ev' = AdapterEvent("submitVote", c, r,
                              apiSubmitVote(cardNumber, voterName, candidateId, r))
        /\ UNCHANGED <<store, calls, accepted, loaded>>

NextAdapter ==
    \/ \E r \in CandidateResponses : CallGetCandidates(r)
    \/ \E id \in CandidateIds, r \in CandidateByIdResponses : CallGetCandidateById(id, r)
    \/ \E n \in CardNumbers, name \in VoterNames : CallCheckEligibility(n, name)
    \/ \E n \in CardNumbers, name \in VoterNames, id \in CandidateIds :
          CallSubmitVote(n, name, id)

\* The adapter under any call of its four operations and any answer of the
\* remote service; the store is not involved and stays as constructed.
SpecAdapter == Init /\ [][NextAdapter]_vars

\* ------------------------------------------------ the card-number functions

\* A JavaScript string is the sequence of its characters.
Whitespace == {" ", "\t"}
Digits == {"0", "1", "2", "3", "4", "5", "6", "7", "8", "9"}

\* Messages of validateCardNumber (accents dropped).
MsgNumberRequired == "Le numero d'electeur est requis"
MsgNumberFormat == "Le numero doit etre au format: V 0074 2666 98"
MsgNumberCharacters == "Le numero d'electeur ne doit contenir que des lettres et des chiffres"
MsgNumberLength == "Le numero doit contenir exactement 10 chiffres apres le V"

\* String.prototype.trim
RECURSIVE trimStart(_)
trimStart(str) ==
    IF str # << >> /\ Head(str) \in Whitespace THEN trimStart(Tail(str)) ELSE str
RECURSIVE trimEnd(_)
trimEnd(str) ==
    IF str # << >> /\ str[Len(str)] \in Whitespace
    THEN trimEnd(SubSeq(str, 1, Len(str) - 1)) ELSE str
trim(str) == trimEnd(trimStart(str))

\* String.prototype.toUpperCase, on the letters the inputs are made of.
UpperCaseOf(ch) ==
    CASE ch = "v" -> "V"
      [] ch = "x" -> "X"
      [] OTHER -> ch
toUpperCase(str) == [i \in DOMAIN str |-> UpperCaseOf(str[i])]

\* str.replace(/[...]/g, ''): the characters of str outside the class.
RemoveAll(str, class) == SelectSeq(str, LAMBDA ch : ch \notin class)

\* The regular expression /^V\s?\d{4}\s?\d{4}\s?\d{2}$/, item by item: a
\* literal character, an optional whitespace character, or n digits.
cardNumberPattern ==
    <<[k |-> "literal", ch |-> "V", n |-> 1],
      [k |-> "\\s?", ch |-> "", n |-> 1], [k |-> "\\d{n}", ch |-> "", n |-> 4],
      [k |-> "\\s?", ch |-> "", n |-> 1], [k |-> "\\d{n}", ch |-> "", n |-> 4],
      [k |-> "\\s?", ch |-> "", n |-> 1], [k |-> "\\d{n}", ch |-> "", n |-> 2]>>

\* RegExp.prototype.test for a pattern anchored at both ends: the items match
\* str from position i to its end; an optional item is tried present, then absent.
RECURSIVE RegexMatches(_, _, _)
RegexMatches(pattern, str, i) ==
    IF pattern = << >> THEN i = Len(str) + 1
    ELSE LET item == Head(pattern) IN
         IF item.k = "literal"
         THEN i <= Len(str) /\ str[i] = item.ch /\ RegexMatches(Tail(pattern), str, i + 1)
         ELSE IF item.k = "\\s?"
         THEN \/ i <= Len(str) /\ str[i] \in Whitespace
                 /\ RegexMatches(Tail(pattern), str, i + 1)
              \/ RegexMatches(Tail(pattern), str, i)
         ELSE /\ i + item.n - 1 <= Len(str)
              /\ \A j \in i..(i + item.n - 1) : str[j] \in Digits
              /\ RegexMatches(Tail(pattern), str, i + item.n)
RegexTest(pattern, str) == RegexMatches(pattern, str, 1)

\* A ValidationResult; cleanValue is absent (Null) from a failed one.
Invalid(message) == [isValid |-> FALSE, errors |-> <<message>>, cleanValue |-> Null]
Valid(cleanValue) == [isValid |-> TRUE, errors |-> << >>, cleanValue |-> cleanValue]

\* validateCardNumber without the upper-casing of the input.
validateCardNumber_NoUpperCase(cardNumber) ==
    IF cardNumber = << >> THEN Invalid(MsgNumberRequired)
    ELSE LET cleanNumber == trim(cardNumber) IN
         IF ~RegexTest(cardNumberPattern, cleanNumber) THEN Invalid(MsgNumberFormat)
         ELSE LET digitsOnly == RemoveAll(cleanNumber, {"V"} \cup Whitespace) IN
              IF ~(digitsOnly # << >> /\ \A i \in DOMAIN digitsOnly : digitsOnly[i] \in Digits)
              THEN Invalid(MsgNumberCharacters)
              ELSE IF Len(digitsOnly) # 10 THEN Invalid(MsgNumberLength)
              ELSE Valid(RemoveAll(cleanNumber, Whitespace))

\* validateCardNumber (vote.service.ts, the strict profile)
validateCardNumber(cardNumber) ==
    IF cardNumber = << >> THEN Invalid(MsgNumberRequired)
    ELSE LET cleanNumber == toUpperCase(trim(cardNumber)) IN
         IF ~RegexTest(cardNumberPattern, cleanNumber) THEN Invalid(MsgNumberFormat)
         ELSE LET digitsOnly == RemoveAll(cleanNumber, {"V"} \cup Whitespace) IN
              IF ~(digitsOnly # << >> /\ \A i \in DOMAIN digitsOnly : digitsOnly[i] \in Digits)
              THEN Invalid(MsgNumberCharacters)
              ELSE IF Len(digitsOnly) # 10 THEN Invalid(MsgNumberLength)
              ELSE Valid(RemoveAll(cleanNumber, Whitespace))

\* str.substring(from, to), with 0-based bounds as in JavaScript.
substring(str, from, to) ==
    SubSeq(str, from + 1, IF to < Len(str) THEN to ELSE Len(str))

\* The branch of formatCardNumberInput for a cleaned input that starts with V.
FormatFromV(cleaned) ==
    LET digits == substring(cleaned, 1, Len(cleaned))
        limitedDigits == substring(digits, 0, 10) IN
    IF Len(limitedDigits) <= 4 THEN <<"V", " ">> \o limitedDigits
    ELSE IF Len(limitedDigits) <= 8
    THEN <<"V", " ">> \o substring(limitedDigits, 0, 4) \o <<" ">>
         \o substring(limitedDigits, 4, Len(limitedDigits))
    ELSE <<"V", " ">> \o substring(limitedDigits, 0, 4) \o <<" ">>
         \o substring(limitedDigits, 4, 8) \o <<" ">>
         \o substring(limitedDigits, 8, Len(limitedDigits))

\* input.replace(/[^V0-9]/gi, '').toUpperCase()
Cleaned(input) == toUpperCase(SelectSeq(input, LAMBDA ch : ch \in {"V", "v"} \cup Digits))

RECURSIVE formatCardNumberInput(_)
\* formatCardNumberInput returning 'V' + cleaned unformatted where it recurses.
formatCardNumberInput_NoRecursion(input) ==
    LET cleaned == Cleaned(input) IN
    IF cleaned # << >> /\ Head(cleaned) = "V" THEN FormatFromV(cleaned)
    ELSE IF Len(cleaned) > 0 THEN <<"V">> \o cleaned
    ELSE cleaned

\* formatCardNumberInput (vote.service.ts)
formatCardNumberInput(input) ==
    LET cleaned == Cleaned(input) IN
    IF cleaned # << >> /\ Head(cleaned) = "V" THEN FormatFromV(cleaned)
    ELSE IF Len(cleaned) > 0 THEN formatCardNumberInput(<<"V">> \o cleaned)
    ELSE cleaned

\* maskCardNumber (vote.service.ts)
maskCardNumber(cardNumber) ==
    IF cardNumber = << >> \/ Len(cardNumber) < 6 THEN cardNumber
    ELSE LET cleanNumber == RemoveAll(cardNumber, Whitespace) IN
         IF cleanNumber # << >> /\ Head(cleanNumber) = "V" /\ Len(cleanNumber) = 11
         THEN LET digits == substring(cleanNumber, 1, Len(cleanNumber)) IN
              <<"V", " ">> \o substring(digits, 0, 4) \o <<" ">>
              \o substring(digits, 4, 8) \o <<" ">> \o substring(digits, 8, Len(digits))
         ELSE substring(cardNumber, 0, 3)
              \o [i \in 1..(Len(cardNumber) - 6) |-> "*"]
              \o substring(cardNumber, Len(cardNumber) - 3, Len(cardNumber))

\* The strings the functions are given: every concatenation of a leading text,
\* a letter part, three groups each after a separator, and a trailing text.
CardInputs ==
    LET separators == {<< >>, <<" ">>, <<"\t">>, <<" ", " ">>} IN
    {lead \o letter \o s1 \o g1 \o s2 \o g2 \o s3 \o g3 \o trail :
        lead \in {<< >>, <<" ">>},
        letter \in {<< >>, <<"V">>, <<"v">>, <<"V", "v">>},
        s1 \in separators,
        g1 \in {<< >>, <<"0", "0", "7", "4">>, <<"0", "0", "7">>, <<"0", "v", "7", "4">>},
        s2 \in separators,
        g2 \in {<< >>, <<"2", "6", "6", "6">>, <<"2", "6", "6", "6", "9">>},
        s3 \in separators,
        g3 \in {<< >>, <<"9", "8">>, <<"9">>},
        trail \in {<< >>, <<" ">>, <<"x">>}}

\* The last step: a string handed over (op "input"), or one application of a
\* function to `in` giving `out`; reapplied: `in` is the previous output.
Applied(op, in, out, reapplied) ==
    [op |-> op, in |-> in, out |-> out, reapplied |-> reapplied]

InitCardNumber ==
    /\ currentStep = VERIFICATION
    /\ voterCardNumber = ""
    /\ voterCardImage = Null
    /\ candidates = << >>
    /\ selectedCandidateId = NullId
    /\ confirmationNumber = ""
    /\ isLoading = FALSE
    /\ error = Null
    /\ isEligible = EligNull
    /\ calls = EmptyBag
    /\ ev \in {Applied("input", x, << >>, FALSE) : x \in CardInputs}
    /\ accepted = Null
    /\ loaded = FALSE

\* A caller validates the string.
CallValidateCardNumber ==
    /\ ev.op = "input"
    /\ ev' = Applied("validateCardNumber", ev.in, validateCardNumber(ev.in), FALSE)
    /\ UNCHANGED <<store, calls, accepted, loaded>>

\* A caller formats the string.
CallFormatCardNumberInput ==
    /\ ev.op = "input"
    /\ ev' = Applied("formatCardNumberInput", ev.in, formatCardNumberInput(ev.in), FALSE)
    /\ UNCHANGED <<store, calls, accepted, loaded>>

\* A caller formats the string the formatter returned.
CallFormatCardNumberInputAgain ==
    /\ ev.op = "formatCardNumberInput" /\ ~ev.reapplied
    /\ ev' = Applied("formatCardNumberInput", ev.out, formatCardNumberInput(ev.out), TRUE)
    /\ UNCHANGED <<store, calls, accepted, loaded>>

\* A caller masks the string for display.
CallMaskCardNumber ==
    /\ ev.op = "input"
    /\ ev' = Applied("maskCardNumber", ev.in, maskCardNumber(ev.in), FALSE)
    /\ UNCHANGED <<store, calls, accepted, loaded>>

NextCardNumber ==
    \/ CallValidateCardNumber
    \/ CallFormatCardNumberInput
    \/ CallFormatCardNumberInputAgain
    \/ CallMaskCardNumber

\* The card-number functions applied to any of the input strings; the store is
\* not involved and stays as constructed.
SpecCardNumber == InitCardNumber /\ [][NextCardNumber]_vars

\* ------------------------------------------------------ the card-image file

\* FILE_UPLOAD.MAX_SIZE
MaxFileSize == 5 * 1024 * 1024

\* A File with the image it holds: whether the browser can decode it, and its
\* width and height in pixels. null: the value is JavaScript null.
File(name, size, type, decodable, width, height) ==
    [null |-> FALSE, name |-> name, size |-> size, type |-> type,
     decodable |-> decodable, width |-> width, height |-> height]
NullFile == [File(<< >>, 0, "", FALSE, 0, 0) EXCEPT !.null = TRUE]

\* String.prototype.toLowerCase, on the letters the file names are made of.
toLowerCase(str) ==
    [i \in DOMAIN str |->
        CASE str[i] = "J" -> "j" [] str[i] = "P" -> "p" [] str[i] = "G" -> "g"
          [] OTHER -> str[i]]

\* str.lastIndexOf('.'), 0-based, -1 when there is none.
lastIndexOf(str, ch) ==
    IF \E i \in DOMAIN str : str[i] = ch
    THEN (CHOOSE i \in DOMAIN str : str[i] = ch /\ \A j \in DOMAIN str : str[j] = ch => j <= i) - 1
    ELSE -1

\* (file.size / (1024 * 1024)).toFixed(2), in hundredths: the division by a
\* power of two is exact and toFixed rounds to the nearest hundredth, halves up.
sizeInMB(size) == (size * 200 + 1024 * 1024) \div (2 * 1024 * 1024)

\* validateCardFile (vote.service.ts); fileInfo is absent from the result for null.
validateCardFile_FirstFailure(file) ==
    IF file.null
    THEN [isValid |-> FALSE, errors |-> <<"Veuillez telecharger votre carte d'electeur">>,
          hasFileInfo |-> FALSE, fileInfo |-> [name |-> << >>, size |-> 0, type |-> "", sizeInMB |-> 0]]
    ELSE LET at == lastIndexOf(file.name, ".")
             fileExtension == substring(toLowerCase(file.name), IF at < 0 THEN 0 ELSE at,
                                        Len(file.name))
             errors == IF file.size > MaxFileSize
                       THEN <<"Le fichier est trop volumineux (maximum 5MB)">>
                       ELSE IF file.type \notin {"image/jpeg", "image/png", "image/webp"}
                       THEN <<"Format de fichier non autorise (JPG, PNG ou WEBP uniquement)">>
                       ELSE IF fileExtension \notin {<<".", "j", "p", "g">>, <<".", "j", "p", "e", "g">>,
                                                     <<".", "p", "n", "g">>, <<".", "w", "e", "b", "p">>}
                       THEN <<"Extension de fichier non autorisee">> ELSE << >> IN
         [isValid |-> Len(errors) = 0, errors |-> errors, hasFileInfo |-> TRUE,
          fileInfo |-> [name |-> file.name, size |-> file.size, type |-> file.type,
                        sizeInMB |-> sizeInMB(file.size)]]
validateCardFile(file) ==
    IF file.null
    THEN [isValid |-> FALSE, errors |-> <<"Veuillez telecharger votre carte d'electeur">>,
          hasFileInfo |-> FALSE, fileInfo |-> [name |-> << >>, size |-> 0, type |-> "", sizeInMB |-> 0]]
    ELSE LET tooLarge == IF file.size > MaxFileSize
                         THEN <<"Le fichier est trop volumineux (maximum 5MB)">> ELSE << >>
             allowedTypes == {"image/jpeg", "image/png", "image/webp"}
             badType == IF file.type \notin allowedTypes
                        THEN <<"Format de fichier non autorise (JPG, PNG ou WEBP uniquement)">>
                        ELSE << >>
             at == lastIndexOf(file.name, ".")
             fileExtension == substring(toLowerCase(file.name), IF at < 0 THEN 0 ELSE at,
                                        Len(file.name))
             allowedExtensions == {<<".", "j", "p", "g">>, <<".", "j", "p", "e", "g">>,
                                   <<".", "p", "n", "g">>, <<".", "w", "e", "b", "p">>}
             badExtension == IF fileExtension \notin allowedExtensions
                             THEN <<"Extension de fichier non autorisee">> ELSE << >>
             errors == tooLarge \o badType \o badExtension IN
         [isValid |-> Len(errors) = 0, errors |-> errors, hasFileInfo |-> TRUE,
          fileInfo |-> [name |-> file.name, size |-> file.size, type |-> file.type,
                        sizeInMB |-> sizeInMB(file.size)]]

\* ---- image functions

\* validateImageResolution's result, once the image has loaded or failed to;
\* width and height are absent (hasSize = FALSE) from the result of a failure.
validateImageResolution_BothSmall(file) ==
    IF ~file.decodable
    THEN [isValid |-> FALSE, hasSize |-> FALSE, width |-> 0, height |-> 0,
          error |-> "Impossible de lire l'image"]
    ELSE IF file.width < 800 /\ file.height < 600
    THEN [isValid |-> FALSE, hasSize |-> TRUE, width |-> file.width, height |-> file.height,
          error |-> "Resolution minimale requise: 800x600 pixels"]
    ELSE [isValid |-> TRUE, hasSize |-> TRUE, width |-> file.width, height |-> file.height,
          error |-> ""]
validateImageResolution(file) ==
    IF ~file.decodable
    THEN [isValid |-> FALSE, hasSize |-> FALSE, width |-> 0, height |-> 0,
          error |-> "Impossible de lire l'image"]
    ELSE IF file.width < 800 \/ file.height < 600
    THEN [isValid |-> FALSE, hasSize |-> TRUE, width |-> file.width, height |-> file.height,
          error |-> "Resolution minimale requise: 800x600 pixels"]
    ELSE [isValid |-> TRUE, hasSize |-> TRUE, width |-> file.width, height |-> file.height,
          error |-> ""]

RECURSIVE Pow2(_)
Pow2(n) == IF n = 0 THEN 1 ELSE 2 * Pow2(n - 1)
\* 2^n modulo b, by doubling.
RECURSIVE Pow2Mod(_, _)
Pow2Mod(n, b) == IF n = 0 THEN 1 % b ELSE (2 * Pow2Mod(n - 1, b)) % b
\* The exponent p with 2^p <= n < 2^(p+1), for n >= 1.
RECURSIVE Log2(_)
Log2(n) == IF n < 2 THEN 0 ELSE 1 + Log2(n \div 2)

\* Math.floor(x * ratio) for ratio = max / side in IEEE 754 double precision,
\* with 0 < max < side and x >= 1. The quotient max / side, in [2^-e, 2^(1-e)),
\* is rounded to 53 significant bits: ratio = M / 2^(52+e) with M the integer
\* nearest to max * 2^(52+e) / side, whose remainder is r. The product is in
\* turn rounded to a double before the floor. When ratio was rounded down and
\* x * max / side is an integer n, the product lies x * r / (side * 2^(52+e))
\* below n, and it rounds back to n only within half the gap between n and the
\* double below it (a gap half as wide when n is a power of two); otherwise the
\* floor is n - 1. In every other case the rounded product has the same
\* integer part as x * max / side.
FloorOfScaled(x, max, side) ==
    LET e == CHOOSE k \in 1..31 : max * Pow2(k) >= side /\ max * Pow2(k - 1) < side
        r == (max * Pow2Mod(52 + e, side)) % side
        n == (x * max) \div side
        p == Log2(n)
        halfGap == side * Pow2(e + p - 1)
    IN IF r = 0 \/ 2 * r > side \/ (x * max) % side # 0 THEN n
       ELSE IF (IF n = Pow2(p) THEN 2 * x * r ELSE x * r) <= halfGap THEN n
       ELSE n - 1

\* compressImage's target size: Math.floor of each side times
\* Math.min(1, maxWidth / width, maxHeight / height).
TargetSize(width, height, maxWidth, maxHeight) ==
    IF maxWidth >= width /\ maxHeight >= height THEN <<width, height>>
    ELSE IF maxWidth * height <= maxHeight * width
    THEN <<FloorOfScaled(width, maxWidth, width), FloorOfScaled(height, maxWidth, width)>>
    ELSE <<FloorOfScaled(width, maxHeight, height), FloorOfScaled(height, maxHeight, height)>>

\* ---- promises, handlers and the component's handleFileChange

\* new Promise(...) whose executor ends with img.src = URL.createObjectURL(file):
\* the object URLs created and revoked for it and the calls of resolve or reject.
createObjectURL ==
    [created |-> 1, revoked |-> 0, settled |-> 0, state |-> "pending"]
revokeObjectURL(promise) == [promise EXCEPT !.revoked = @ + 1]
\* resolve(...) or reject(...): only the first call settles the promise.
settle(promise, state) ==
    [promise EXCEPT !.settled = @ + 1,
                    !.state = IF promise.state = "pending" THEN state ELSE @]

\* The files the functions are applied to: every name, size and type around a
\* valid image, and every image under a valid name, size and type.
CardFiles ==
    {File(name, size, type, TRUE, 800, 600) :
        name \in {<<"a", ".", "j", "p", "g">>, <<"a", ".", "J", "P", "G">>,
                  <<"a", ".", "j", "p", "e", "g">>, <<"a", ".", "w", "e", "b", "p">>,
                  <<"a", ".", "p", "d", "f">>, <<"a", "j", "p", "g">>,
                  <<"a", ".", "j", "p", "g", ".", "x">>},
        size \in {1000, MaxFileSize, MaxFileSize + 1},
        type \in {"image/jpeg", "image/png", "image/webp", "application/pdf"}}
    \cup {File(<<"a", ".", "p", "n", "g">>, 1000, "image/png", TRUE, width, height) :
            width \in {1, 799, 800, 1200, 1401, 2191, 2400, 4000},
            height \in {1, 599, 600, 1400, 2101, 4000}}
    \cup {File(<<"a", ".", "p", "n", "g">>, 1000, "image/png", FALSE, 0, 0)}

\* A service function about to be applied to a file, or the component (cardFile,
\* error) about to handle the change of its file input; compressImage's options
\* are its defaults, the component's, or smaller ones.
InitCardFile ==
    /\ currentStep = VERIFICATION
    /\ voterCardNumber = ""
    /\ voterCardImage = Null
    /\ candidates = << >>
    /\ selectedCandidateId = NullId
    /\ confirmationNumber = ""
    /\ isLoading = FALSE
    /\ error = Null
    /\ isEligible = EligNull
    /\ calls = EmptyBag
    /\ \E op \in {"validateCardFile", "validateImageResolution", "compressImage",
                  "handleFileChange"},
          file \in CardFiles \cup {NullFile},
          options \in {<<1200, 1200>>, <<1400, 1400>>, <<800, 600>>},
          cardFile \in {NullFile, File(<<"b", ".", "j", "p", "g">>, 1000, "image/jpeg", TRUE, 800, 600)},
          shown \in {"", "Extension de fichier non autorisee"} :
          /\ file.null => op \in {"validateCardFile", "handleFileChange"}
          /\ op # "compressImage" => options = <<1400, 1400>>
          /\ op # "handleFileChange" => cardFile = NullFile /\ shown = ""
          /\ ev = [op |-> op, pc |-> "input", file |-> file,
                   maxWidth |-> options[1], maxHeight |-> options[2],
                   validation |-> validateCardFile(NullFile),
                   resolving |-> [createObjectURL EXCEPT !.created = 0, !.state = "none"],
                   resolution |-> validateImageResolution(NullFile),
                   compressing |-> [createObjectURL EXCEPT !.created = 0, !.state = "none"],
                   target |-> << >>, compressed |-> NullFile, reason |-> "",
                   cardFile |-> cardFile, error |-> shown]
    /\ accepted = Null
    /\ loaded = FALSE

\* A caller validates the file.
CallValidateCardFile ==
    /\ ev.op = "validateCardFile" /\ ev.pc = "input"
    /\ ev' = [ev EXCEPT !.validation = validateCardFile(ev.file), !.pc = "done"]
    /\ UNCHANGED <<store, calls, accepted, loaded>>

\* A caller asks for the resolution check: the executor creates the object URL.
CallValidateImageResolution ==
    /\ ev.op = "validateImageResolution" /\ ev.pc = "input"
    /\ ev' = [ev EXCEPT !.resolving = createObjectURL, !.pc = "resolution"]
    /\ UNCHANGED <<store, calls, accepted, loaded>>

\* img.onload of validateImageResolution.
validateImageResolutionOnload ==
    /\ ev.pc = "resolution" /\ ev.file.decodable
    /\ ev' = [ev EXCEPT !.resolving = settle(revokeObjectURL(@), "resolved"),
                        !.resolution = validateImageResolution(ev.file),
                        !.pc = IF ev.op = "handleFileChange" THEN "resolved" ELSE "done"]
    /\ UNCHANGED <<store, calls, accepted, loaded>>

\* img.onerror of validateImageResolution.
validateImageResolutionOnerror ==
    /\ ev.pc = "resolution" /\ ~ev.file.decodable
    /\ ev' = [ev EXCEPT !.resolving = settle(revokeObjectURL(@), "resolved"),
                        !.resolution = validateImageResolution(ev.file),
                        !.pc = IF ev.op = "handleFileChange" THEN "resolved" ELSE "done"]
    /\ UNCHANGED <<store, calls, accepted, loaded>>

\* A caller asks for the compression: the executor creates the object URL.
CallCompressImage ==
    /\ ev.op = "compressImage" /\ ev.pc = "input"
    /\ ev' = [ev EXCEPT !.compressing = createObjectURL, !.pc = "compress"]
    /\ UNCHANGED <<store, calls, accepted, loaded>>

\* img.onload of compressImage: the URL is revoked, the target size computed and
\* the canvas sized; without a 2d context the promise is rejected, with one the
\* image is drawn and canvas.toBlob called.
compressImageOnload ==
    /\ ev.pc = "compress" /\ ev.file.decodable
    /\ \E ctx \in BOOLEAN :
          ev' = [ev EXCEPT
                   !.compressing = IF ctx THEN revokeObjectURL(@)
                                   ELSE settle(revokeObjectURL(@), "rejected"),
                   !.target = TargetSize(ev.file.width, ev.file.height, ev.maxWidth, ev.maxHeight),
                   !.reason = IF ctx THEN @ ELSE "Canvas non supporte",
                   !.pc = IF ctx THEN "encode"
                          ELSE IF ev.op = "handleFileChange" THEN "compressed" ELSE "done"]
    /\ UNCHANGED <<store, calls, accepted, loaded>>

\* img.onerror of compressImage.
compressImageOnerror_NoRevoke ==
    /\ ev.pc = "compress" /\ ~ev.file.decodable
    /\ ev' = [ev EXCEPT !.compressing = settle(@, "rejected"),
                        !.reason = "Impossible de lire le fichier image",
                        !.pc = IF ev.op = "handleFileChange" THEN "compressed" ELSE "done"]
    /\ UNCHANGED <<store, calls, accepted, loaded>>
compressImageOnerror ==
    /\ ev.pc = "compress" /\ ~ev.file.decodable
    /\ ev' = [ev EXCEPT !.compressing = settle(revokeObjectURL(@), "rejected"),
                        !.reason = "Impossible de lire le fichier image",
                        !.pc = IF ev.op = "handleFileChange" THEN "compressed" ELSE "done"]
    /\ UNCHANGED <<store, calls, accepted, loaded>>

\* The callback of canvas.toBlob: no blob (always so for a canvas without
\* pixels), or a blob of some size that becomes the JPEG file, named as the
\* original with its image extension replaced by .jpg.
toBlobCallback ==
    /\ ev.pc = "encode"
    /\ \E blob \in {0, ev.file.size - 1, ev.file.size, ev.file.size + 1} :
          /\ ev.target[1] = 0 \/ ev.target[2] = 0 => blob = 0
          /\ LET at == lastIndexOf(ev.file.name, ".")
                 extension == substring(toLowerCase(ev.file.name), IF at < 0 THEN 0 ELSE at,
                                        Len(ev.file.name))
                 renamed == IF at >= 0 /\ extension \in {<<".", "j", "p", "g">>,
                                 <<".", "j", "p", "e", "g">>, <<".", "p", "n", "g">>,
                                 <<".", "w", "e", "b", "p">>}
                            THEN substring(ev.file.name, 0, at) \o <<".", "j", "p", "g">>
                            ELSE ev.file.name
             IN ev' = [ev EXCEPT
                   !.compressing = settle(@, IF blob = 0 THEN "rejected" ELSE "resolved"),
                   !.reason = IF blob = 0 THEN "Echec de la compression" ELSE @,
                   !.compressed = IF blob = 0 THEN @
                                  ELSE File(renamed, blob, "image/jpeg", TRUE,
                                            ev.target[1], ev.target[2]),
                   !.pc = IF ev.op = "handleFileChange" THEN "compressed" ELSE "done"]
    /\ UNCHANGED <<store, calls, accepted, loaded>>

\* handleFileChange up to its first await: nothing without a file; a file that
\* fails validateCardFile is refused; for another the resolution check starts.
handleFileChange ==
    /\ ev.op = "handleFileChange" /\ ev.pc = "input"
    /\ LET validation == validateCardFile(ev.file) IN
       ev' = IF ev.file.null THEN [ev EXCEPT !.pc = "done"]
             ELSE IF ~validation.isValid
             THEN [ev EXCEPT !.validation = validation,
                             !.error = IF Len(validation.errors) > 0 THEN validation.errors[1]
                                       ELSE "Erreur de validation",
                             !.cardFile = NullFile, !.pc = "done"]
             ELSE [ev EXCEPT !.validation = validation, !.resolving = createObjectURL,
                             !.pc = "resolution"]
    /\ UNCHANGED <<store, calls, accepted, loaded>>

\* handleFileChange resumed with the resolution check's result: the file is
\* refused, or its compression starts with the component's options.
handleFileChangeResolved ==
    /\ ev.op = "handleFileChange" /\ ev.pc = "resolved"
    /\ ev' = IF ~ev.resolution.isValid
             THEN [ev EXCEPT !.error = IF ev.resolution.error # "" THEN ev.resolution.error
                                       ELSE "Resolution d'image invalide",
                             !.cardFile = NullFile, !.pc = "done"]
             ELSE [ev EXCEPT !.compressing = createObjectURL, !.pc = "compress"]
    /\ UNCHANGED <<store, calls, accepted, loaded>>

\* handleFileChange resumed with the compressed file, or in its catch block.
handleFileChangeCompressed_NotLarger ==
    /\ ev.op = "handleFileChange" /\ ev.pc = "compressed"
    /\ ev' = [ev EXCEPT
                !.cardFile = IF ev.compressing.state = "resolved" /\ ev.compressed.size <= ev.file.size
                             THEN ev.compressed ELSE ev.file,
                !.error = "", !.pc = "done"]
    /\ UNCHANGED <<store, calls, accepted, loaded>>
handleFileChangeCompressed ==
    /\ ev.op = "handleFileChange" /\ ev.pc = "compressed"
    /\ ev' = [ev EXCEPT
                !.cardFile = IF ev.compressing.state = "resolved" /\ ev.compressed.size < ev.file.size
                             THEN ev.compressed ELSE ev.file,
                !.error = "", !.pc = "done"]
    /\ UNCHANGED <<store, calls, accepted, loaded>>

NextCardFile ==
    \/ CallValidateCardFile
    \/ CallValidateImageResolution
    \/ validateImageResolutionOnload
    \/ validateImageResolutionOnerror
    \/ CallCompressImage
    \/ compressImageOnload
    \/ compressImageOnerror
    \/ toBlobCallback
    \/ handleFileChange
    \/ handleFileChangeResolved
    \/ handleFileChangeCompressed

\* The card-file functions and the component's file input applied to any of
\* the files; the store is not involved and stays as constructed.
SpecCardFile == InitCardFile /\ [][NextCardFile]_vars

\* ------------------------------------------------------------------ claims

\* C1: whenever the store is at the Vote step, voterCardNumber is non-empty,
\* voterCardImage is non-null and isEligible is true.
C1_VoteNeedsVerifiedVoter ==
    currentStep = VOTE =>
        voterCardNumber # "" /\ voterCardImage # Null /\ isEligible = EligTrue

\* C2: whenever the store is at the Confirmation step, selectedCandidateId is
\* non-null and is the id of a cached candidate, and the selectedCandidate
\* getter is non-null, for every id including 0.
C2_ConfirmationNeedsCachedCandidate ==
    currentStep = CONFIRMATION =>
        /\ selectedCandidateId # NullId
        /\ Find(candidates, selectedCandidateId) # NullId
        /\ selectedCandidate # NullId

\* C3: whenever the store is at the Success step, a submitVote call has received
\* a response with success = true since the last resetVote, and
\* confirmationNumber is the vote id of that response.
C3_SuccessNeedsAcceptedVote ==
    currentStep = SUCCESS => accepted # Null /\ confirmationNumber = accepted

\* The changes of currentStep the step order allows.
OrderedTransitions ==
    {<<VERIFICATION, VOTE>>, <<VOTE, CONFIRMATION>>, <<CONFIRMATION, VOTE>>,
     <<CONFIRMATION, SUCCESS>>}

\* C4: every change of currentStep is Verification->Vote, Vote->Confirmation,
\* Confirmation->Vote, Confirmation->Success or resetVote's return to
\* Verification; no action skips a step.
C4_OrderedTransitionsOnly ==
    [][currentStep' # currentStep =>
          \/ <<currentStep, currentStep'>> \in OrderedTransitions
          \/ ev'.op = "resetVote" /\ currentStep' = VERIFICATION]_vars

\* The remote service is asked: the call's adapter operation has sent its request.
CallSends == ev'.phase = "call" /\ ev'.res = "pending" => ev'.call.sent

\* C5: a saveVerificationData(cardNumber, image) call has the adapter send the
\* eligibility request, and when the check answers eligible the call resolves
\* with voterCardNumber = cardNumber, voterCardImage = image, isEligible = true,
\* error = null, isLoading = false and currentStep = Vote.
C5_SaveAdvancesWhenEligible ==
    [][ev'.op = "saveVerificationData" =>
          /\ CallSends
          /\ ev'.phase = "checked" /\ ev'.out.ok /\ ev'.out.value.eligible =>
                ev'.call.eligible /\ isEligible' = EligTrue /\ error' = Null
          /\ ev'.phase = "settle" /\ ev'.call.eligible =>
                /\ ev'.res = "resolved"
                /\ voterCardNumber' = ev'.call.cardNum
                /\ voterCardImage' = ev'.call.cardImg
                /\ currentStep' = VOTE
                /\ isLoading' = FALSE
                /\ UNCHANGED <<isEligible, error>>]_vars

\* C6: a saveVerificationData call whose eligibility check answers ineligible,
\* or fails in the adapter, rejects; no step of the call changes currentStep,
\* voterCardNumber or voterCardImage; when it rejects isLoading is false and
\* error is a non-null message, and isEligible is false (the value the check
\* left, when the call resumes right after it).
C6_SaveRejectsWhenNotEligible ==
    [][ev'.op = "saveVerificationData" /\ ~ev'.call.eligible =>
          /\ UNCHANGED <<currentStep, voterCardNumber, voterCardImage>>
          /\ ev'.phase = "checked" => isEligible' = EligFalse
          /\ ev'.phase = "settle" =>
                /\ ev'.res = "rejected"
                /\ isLoading' = FALSE
                /\ error' \notin {Null, ""}
                /\ (ev.phase = "checked" /\ ev.call = ev'.call =>
                        isEligible' = EligFalse)]_vars

\* C6 witness: a call made at the Verification step with a ballot in the store
\* has been rejected after its check failed, and the ballot is still there.
C6_Witness ==
    /\ ev.op = "saveVerificationData" /\ ev.phase = "settle" /\ ev.res = "rejected"
    /\ voterCardNumber # "" /\ voterCardImage # Null
    /\ currentStep = VERIFICATION
    /\ isEligible = EligFalse /\ ~isLoading /\ error = MsgNotEligible

\* C7: goToConfirmation with selectedCandidateId null leaves currentStep
\* unchanged and sets error to the no-candidate message; with a non-null id
\* (0 included) it sets currentStep = Confirmation and error = null.
C7_GoToConfirmation ==
    [][ev'.op = "goToConfirmation" =>
          IF selectedCandidateId = NullId
          THEN currentStep' = currentStep /\ error' = MsgNoCandidate
          ELSE currentStep' = CONFIRMATION /\ error' = Null]_vars

\* C7 witness: goToConfirmation was called at the Vote step with no candidate.
C7_Witness ==
    /\ ev.op = "goToConfirmation"
    /\ selectedCandidateId = NullId
    /\ currentStep = VOTE
    /\ error = MsgNoCandidate

\* C8: submitVote calls the adapter only when voterCardNumber is non-empty,
\* voterCardImage non-null, selectedCandidateId non-null, isLoading false and
\* isEligible true; otherwise it makes no call, resolves, sets error to
\* 'Impossible de soumettre le vote' and changes nothing else.
C8_SubmitGuard ==
    [][ev'.op = "submitVote" /\ ev'.phase = "call" =>
          IF /\ voterCardNumber # ""
             /\ voterCardImage # Null
             /\ selectedCandidateId # NullId
             /\ ~isLoading
             /\ isEligible = EligTrue
          THEN /\ ev'.res = "pending"
               /\ calls' = Add(calls, ev'.call)
               /\ ev'.call.kind = "submitVote"
          ELSE /\ ev'.res = "resolved"
               /\ calls' = calls
               /\ error' = MsgCannotSubmit
               /\ UNCHANGED <<currentStep, voterCardNumber, voterCardImage,
                              selectedCandidateId, confirmationNumber, isEligible,
                              isLoading, candidates>>]_vars

\* C8 witness: submitVote was refused for a ballot that lacks only eligibility.
C8_Witness ==
    /\ ev.op = "submitVote" /\ ev.phase = "call" /\ ev.res = "resolved"
    /\ voterCardNumber # "" /\ voterCardImage # Null /\ selectedCandidateId # NullId
    /\ ~isLoading /\ isEligible = EligFalse
    /\ error = MsgCannotSubmit

\* C9: a submitVote call that passes its guard has the adapter send the vote;
\* it ends with currentStep = Success and confirmationNumber = the returned
\* vote id exactly when the remote service accepts the vote, and otherwise it
\* rejects with currentStep and confirmationNumber unchanged, isLoading false
\* and error holding the adapter's message.
C9_SubmitOutcome ==
    [][ev'.op = "submitVote" =>
          /\ CallSends
          /\ ev'.phase = "settle" =>
                /\ isLoading' = FALSE
                /\ IF ev'.out.ok /\ ev'.out.value.success
                   THEN /\ ev'.res = "resolved"
                        /\ currentStep' = SUCCESS
                        /\ confirmationNumber' = ev'.out.value.voteId
                   ELSE /\ ev'.res = "rejected"
                        /\ UNCHANGED <<currentStep, confirmationNumber>>
                        /\ error' \notin {Null, ""}]_vars

\* C10: resetVote sets currentStep = Verification, voterCardNumber = '',
\* voterCardImage = null, selectedCandidateId = null, confirmationNumber = '',
\* error = null, isLoading = false and isEligible = null, and leaves the
\* candidates list unchanged.
C10_ResetVote ==
    [][ev'.op = "resetVote" =>
          /\ currentStep' = VERIFICATION
          /\ voterCardNumber' = ""
          /\ voterCardImage' = Null
          /\ selectedCandidateId' = NullId
          /\ confirmationNumber' = ""
          /\ error' = Null
          /\ isLoading' = FALSE
          /\ isEligible' = EligNull
          /\ candidates' = candidates]_vars

\* C10 witness: resetVote ran with a loaded candidate list and calls awaiting.
C10_Witness ==
    /\ ev.op = "resetVote"
    /\ candidates # << >>
    /\ Awaiting > 0
    /\ currentStep = VERIFICATION /\ voterCardNumber = "" /\ ~isLoading

\* C11: once a loadCandidates call has resolved (with any list, the empty one
\* included), no later loadCandidates call has the adapter send another
\* getCandidates request, whether or not resetVote ran in between.
C11_CandidatesFetchedOnce ==
    [][ev'.op = "loadCandidates" /\ ev'.phase = "call" /\ ev'.call.sent => ~loaded]_vars

\* The store actions that show the loading flag.
LoadingOps == {"saveVerificationData", "loadCandidates", "submitVote"}

\* C12: saveVerificationData, loadCandidates and submitVote (its guard passed)
\* set isLoading = true and error = null in the step that calls the adapter;
\* the continuation that runs once the adapter call has completed, with
\* success or any failure, ends the call with isLoading = false; and whenever
\* isLoading is true such a call is still awaiting, so that the flag is unset
\* as soon as that call's adapter operation completes.
C12_LoadingBracket ==
    /\ [](isLoading => \E c \in BagToSet(calls) : c.kind \in LoadingOps)
    /\ [][ev'.op \in LoadingOps =>
             /\ ev'.phase = "call" /\ ev'.res = "pending" =>
                   isLoading' /\ error' = Null /\ calls' = Add(calls, ev'.call)
             /\ ev'.phase = "checked" =>
                   isLoading' = isLoading /\ BagIn(ev'.call, calls')
             /\ ev'.phase = "settle" =>
                   ~isLoading' /\ calls' = Remove(calls, ev'.call)]_vars

\* C12 witness: a submitVote call that passed its guard has ended on a failure
\* of the adapter, and left isLoading = false.
C12_Witness ==
    /\ ev.op = "submitVote" /\ ev.phase = "settle" /\ ev.res = "rejected"
    /\ ~ev.out.ok
    /\ ~isLoading

\* C13: isLoading = true implies error = null.
C13_LoadingExcludesError == isLoading => error = Null

\* The step consumed a failure of the adapter.
AdapterFailed(e) == e.out.err.shape # "none"

\* C14: every step of a store action that fails (rejects, or has
\* checkEligibility return false) leaves a non-null, non-empty error; the step
\* that catches an adapter error leaves that error's message in error, and so
\* does the end of a saveVerificationData call that resumes right after its
\* check caught one.
C14_FailureLeavesItsMessage ==
    [][/\ ev'.res = "rejected" => error' \notin {Null, ""}
       /\ ev'.phase \in {"checked", "settle"} /\ ev'.out # NoOutcome
             /\ ~checkEligibilityResult(ev'.out)
             /\ ev'.op \in {"checkEligibility", "saveVerificationData"} =>
                error' \notin {Null, ""}
       /\ AdapterFailed(ev') => error' = ev'.out.err.message
       /\ ev'.phase = "settle" /\ ev.phase = "checked" /\ ev.call = ev'.call
             /\ AdapterFailed(ev) =>
                error' = ev.out.err.message]_vars

\* C15: every failure of an adapter operation is thrown as an object of the
\* shape {status, message, data}; no other exception value escapes.
C15_AdapterThrowsApiError ==
    ev.phase = "adapter" /\ ev.res = "rejected" => ev.out.err.shape = "ApiError"

\* An HTTP response was received for the call.
ResponseReceived(e) == e.call.sent /\ e.r.net

\* C16: the status of an error thrown by the adapter is 0 exactly when no HTTP
\* response was received, and for getCandidates, getCandidateById and
\* checkEligibility answered with a non-success HTTP status it is that status.
C16_StatusZeroIffNoResponse ==
    ev.phase = "adapter" /\ ev.res = "rejected" =>
        /\ ev.out.err.status = 0 <=> ~ResponseReceived(ev)
        /\ ev.op \in {"getCandidates", "getCandidateById", "checkEligibility"}
              /\ ResponseReceived(ev) /\ ~ResponseOk(ev.r) =>
                 ev.out.err.status = ev.r.status

\* The errors the try block of submitVote may throw for the call.
SubmitVoteThrown(e) ==
    {ErrorObject(TrimErrorMessage(e.call.name)), ErrorObject(MsgFailedToFetch),
     ErrorObject(MsgBadJson), ResponseError(e.r.status, e.r.body)}

\* C17: submitVote answered with HTTP 422 and a per-field errors map throws
\* {status: 422, message, data} with message all messages of all fields joined
\* by ', ' in field order and data the response body; every other failure of
\* submitVote throws what the generic error mapper builds.
C17_SubmitVoteErrors ==
    ev.phase = "adapter" /\ ev.op = "submitVote" /\ ev.res = "rejected" =>
        IF ResponseReceived(ev) /\ ev.r.parsable /\ ev.r.status = 422 /\ ev.r.body.hasErrors
        THEN LET messages == Flat(ev.r.body.errors) IN
             /\ ev.out.err = ApiError(422, Join(messages), ev.r.body)
             /\ \A k \in DOMAIN ev.r.body.errors : \A j \in DOMAIN ev.r.body.errors[k] :
                    \E i \in DOMAIN messages : messages[i] = ev.r.body.errors[k][j]
        ELSE ev.out.err \in {handleApiError(thrown) : thrown \in SubmitVoteThrown(ev)}

\* Nothing, or one whitespace character.
OptionalWhitespace == {<< >>} \cup {<<ch>> : ch \in Whitespace}

\* str is 'V' and 10 digits grouped 4-4-2, each group after at most one
\* whitespace character.
StrictCardNumber(str) ==
    LET body == RemoveAll(str, Whitespace) IN
    /\ Len(body) = 11
    /\ body[1] = "V"
    /\ \A i \in 2..11 : body[i] \in Digits
    /\ \E a, b, c \in OptionalWhitespace :
          str = <<"V">> \o a \o SubSeq(body, 2, 5) \o b \o SubSeq(body, 6, 9)
                \o c \o SubSeq(body, 10, 11)

\* C18: validateCardNumber returns isValid = true exactly for the inputs that,
\* trimmed and upper-cased, are 'V' and 10 digits grouped 4-4-2 with at most one
\* whitespace character before each group; then errors is empty and cleanValue
\* is 'V' and the 10 digits without whitespace; for every other input, the empty
\* string included, isValid = false and errors has at least one entry.
C18_StrictValidation ==
    ev.op = "validateCardNumber" =>
        LET str == toUpperCase(trim(ev.in)) IN
        IF StrictCardNumber(str)
        THEN /\ ev.out.isValid
             /\ ev.out.errors = << >>
             /\ ev.out.cleanValue = RemoveAll(str, Whitespace)
             /\ Len(ev.out.cleanValue) = 11
        ELSE ~ev.out.isValid /\ Len(ev.out.errors) >= 1

\* C18 witness: a number written in lower case, with leading whitespace and a
\* separator before a group, was validated and found valid.
C18_Witness ==
    /\ ev.op = "validateCardNumber"
    /\ ev.out.isValid
    /\ Head(ev.in) \in Whitespace
    /\ \E i \in DOMAIN ev.in : ev.in[i] = "v"
    /\ Len(trim(ev.in)) > Len(ev.out.cleanValue)

\* C19: formatCardNumberInput applied to its own output returns that output.
C19_FormatIdempotent ==
    [][ev'.op = "formatCardNumberInput" /\ ev'.reapplied =>
          ev'.in = ev.out /\ ev'.out = ev.out]_vars

\* C19 witness: the formatter was applied again to an output it had cut to ten
\* characters after the 'V', one of them a second 'V'.
C19_Witness ==
    /\ ev.op = "formatCardNumberInput" /\ ev.reapplied
    /\ Len(RemoveAll(ev.out, {" "})) = 11
    /\ \E i \in 2..Len(ev.out) : ev.out[i] = "V"

\* The digits of str, in order, up to the tenth.
FirstTenDigits(str) ==
    LET digits == SelectSeq(str, LAMBDA ch : ch \in Digits) IN
    SubSeq(digits, 1, IF Len(digits) < 10 THEN Len(digits) ELSE 10)

\* str is 'V', a space, and the digits in groups of 4, 4 and 2 separated by
\* single spaces.
GroupedAfterV(str, digits) ==
    /\ RemoveAll(str, {" "}) = <<"V">> \o digits
    /\ \A i \in DOMAIN str : str[i] = " " <=> i \in {2, 7, 12}

\* C20: formatCardNumberInput returns the empty string, or 'V' followed by the
\* digits of the input up to the tenth, every other character removed, grouped
\* 4-4-2 and separated by single spaces.
C20_FormatShape ==
    ev.op = "formatCardNumberInput" =>
        \/ ev.out = << >>
        \/ GroupedAfterV(ev.out, FirstTenDigits(ev.in))

C28_ResetIsNotUndone ==
    [][ev.op = "resetVote" /\ ev'.op \in LoadingOps
          /\ ev'.phase \in {"checked", "settle"} =>
          UNCHANGED <<currentStep, voterCardNumber, voterCardImage,
                      confirmationNumber, isEligible, isLoading, error>>]_vars

\* C30: isLoading is true exactly while a saveVerificationData, loadCandidates
\* or submitVote call is awaiting.
C30_LoadingIffAwaiting ==
    isLoading <=> \E c \in BagToSet(calls) : c.kind \in LoadingOps

\* C21: maskCardNumber returns an input shorter than 6 characters unmodified,
\* and for 'V' and 10 digits, with or without spaces, it returns the layout
\* 'V dddd dddd dd' with no digit of the number left readable in it.
C21_MaskHidesDigits ==
    ev.op = "maskCardNumber" =>
        /\ Len(ev.in) < 6 => ev.out = ev.in
        /\ LET number == RemoveAll(ev.in, Whitespace) IN
           Len(number) = 11 /\ number[1] = "V" /\ (\A i \in 2..11 : number[i] \in Digits) =>
               /\ Len(ev.out) = 14
               /\ ev.out[1] = "V"
               /\ \A i \in DOMAIN ev.out : ev.out[i] = " " <=> i \in {2, 7, 12}
               /\ \A i \in DOMAIN ev.out : ev.out[i] \notin Digits

\* C22: validateCardFile on null returns isValid = false, the single 'required'
\* error and no fileInfo; on a file its errors are exactly the failures among
\* size over 5 MiB, MIME type outside the three image types and lower-cased
\* name not ending in an allowed extension, in that order, isValid is true
\* exactly when there is none, and fileInfo is attached.
C22_ValidateCardFile ==
    ev.op = "validateCardFile" /\ ev.pc = "done" =>
        LET file == ev.file
            out == ev.validation
            lower == toLowerCase(file.name)
            EndsWith(extension) ==
                /\ Len(lower) >= Len(extension)
                /\ SubSeq(lower, Len(lower) - Len(extension) + 1, Len(lower)) = extension
            checks == <<
                [failed |-> file.size > 5242880,
                 message |-> "Le fichier est trop volumineux (maximum 5MB)"],
                [failed |-> file.type # "image/jpeg" /\ file.type # "image/png"
                            /\ file.type # "image/webp",
                 message |-> "Format de fichier non autorise (JPG, PNG ou WEBP uniquement)"],
                [failed |-> ~ \/ EndsWith(<<".", "j", "p", "g">>)
                              \/ EndsWith(<<".", "j", "p", "e", "g">>)
                              \/ EndsWith(<<".", "p", "n", "g">>)
                              \/ EndsWith(<<".", "w", "e", "b", "p">>),
                 message |-> "Extension de fichier non autorisee"] >>
            Failed(check) == check.failed
            failures == SelectSeq(checks, Failed)
        IN IF file.null
           THEN /\ ~out.isValid
                /\ out.errors = <<"Veuillez telecharger votre carte d'electeur">>
                /\ ~out.hasFileInfo
           ELSE /\ out.errors = [i \in DOMAIN failures |-> failures[i].message]
                /\ out.isValid <=> out.errors = << >>
                /\ out.hasFileInfo
                /\ out.fileInfo.name = file.name /\ out.fileInfo.size = file.size
                /\ out.fileInfo.type = file.type

\* A file failing all three checks has been validated and all three are reported.
C22_Witness ==
    /\ ev.op = "validateCardFile" /\ ev.pc = "done" /\ ~ev.file.null
    /\ Len(ev.validation.errors) = 3

\* C23: validateImageResolution always resolves, never rejects: for a decodable
\* image with isValid true exactly when width >= 800 and height >= 600 and with
\* the image's width and height in either case; on a decode failure with
\* isValid false, no dimensions and a message other than the resolution one.
C23_ResolutionResult ==
    ev.op \in {"validateImageResolution", "handleFileChange"}
    /\ ev.resolving.state \notin {"none", "pending"} =>
        /\ ev.resolving.state = "resolved"
        /\ ev.file.decodable =>
              /\ ev.resolution.isValid <=> ev.file.width >= 800 /\ ev.file.height >= 600
              /\ ev.resolution.hasSize
              /\ ev.resolution.width = ev.file.width
              /\ ev.resolution.height = ev.file.height
        /\ ~ev.file.decodable =>
              /\ ~ev.resolution.isValid
              /\ ~ev.resolution.hasSize
              /\ ev.resolution.error \notin {"", "Resolution minimale requise: 800x600 pixels"}

\* An image wide enough but not high enough has been checked and refused.
C23_Witness ==
    /\ ev.op = "validateImageResolution" /\ ev.resolving.state = "resolved"
    /\ ev.file.width >= 800 /\ ev.file.height < 600
    /\ ~ev.resolution.isValid /\ ev.resolution.width = ev.file.width

\* C24: the object URL created by validateImageResolution or compressImage is
\* revoked exactly once and the promise settled exactly once on every exit
\* path: never more than once, never a URL that was not created, both done
\* once the promise is settled or the caller has finished, and a pending
\* promise always has a handler of its image or of the encoder still to run.
C24_RevokedAndSettledOnce ==
    ev.op \in {"validateImageResolution", "compressImage", "handleFileChange"} =>
        /\ \A promise \in {ev.resolving, ev.compressing} :
              /\ promise.revoked <= promise.created
              /\ promise.settled <= promise.revoked
              /\ promise.created <= 1
              /\ promise.state \in {"resolved", "rejected"} \/ (ev.pc = "done" /\ promise.created = 1)
                    => promise.revoked = 1 /\ promise.settled = 1
        /\ ev.resolving.state = "pending" => ev.pc = "resolution"
        /\ ev.compressing.state = "pending" => ev.pc \in {"compress", "encode"}

\* compressImage's encoding produced no output: the URL was revoked at load and
\* the promise rejected once, in the callback.
C24_Witness ==
    /\ ev.op = "compressImage" /\ ev.pc = "done"
    /\ ev.reason = "Echec de la compression"
    /\ ev.compressing.revoked = 1 /\ ev.compressing.settled = 1

\* C25: compressImage's target size is (floor(w * r), floor(h * r)) for
\* r = min(1, maxWidth / w, maxHeight / h); it exceeds neither the configured
\* maximum nor the source in either dimension, and equals the source size when
\* the source is within the maximum.
C25_TargetSize ==
    ev.op \in {"compressImage", "handleFileChange"} /\ Len(ev.target) = 2 =>
        LET w == ev.file.width
            h == ev.file.height
            within == w <= ev.maxWidth /\ h <= ev.maxHeight
            \* r = num / den
            num == IF within THEN 1
                   ELSE IF ev.maxWidth * h <= ev.maxHeight * w THEN ev.maxWidth
                   ELSE ev.maxHeight
            den == IF within THEN 1
                   ELSE IF ev.maxWidth * h <= ev.maxHeight * w THEN w
                   ELSE h
        IN /\ ev.target = <<(w * num) \div den, (h * num) \div den>>
           /\ ev.target[1] <= ev.maxWidth /\ ev.target[2] <= ev.maxHeight
           /\ ev.target[1] <= w /\ ev.target[2] <= h
           /\ within => ev.target = <<w, h>>

\* C27: once handleFileChange is done with a file that passes validateCardFile
\* and the resolution check, cardFile is the compressed file if compression
\* succeeded with a strictly smaller file and the original file otherwise, never
\* null; for a file failing either check cardFile is null and an error is shown.
C27_RetainedFile ==
    ev.op = "handleFileChange" /\ ev.pc = "done" /\ ~ev.file.null =>
        LET passes == /\ validateCardFile(ev.file).isValid
                      /\ ev.file.decodable /\ ev.file.width >= 800 /\ ev.file.height >= 600
            smaller == ev.compressing.state = "resolved" /\ ev.compressed.size < ev.file.size
        IN IF passes
           THEN /\ ~ev.cardFile.null
                /\ ev.compressing.settled = 1
                /\ smaller => ev.cardFile = ev.compressed
                /\ ~smaller => ev.cardFile = ev.file
           ELSE ev.cardFile.null /\ ev.error # ""

\* A compressed file of the original's size was produced and the original kept.
C27_Witness ==
    /\ ev.op = "handleFileChange" /\ ev.pc = "done"
    /\ ev.compressing.state = "resolved" /\ ev.compressed.size = ev.file.size
    /\ ev.cardFile = ev.file /\ ev.cardFile # ev.compressed

\* C29: the file handleFileChange keeps for a source image of at least 800x600
\* is at least 800 wide and 600 high.
C29_RetainedMeetsMinimum ==
    ev.op = "handleFileChange" /\ ev.pc = "done" /\ ~ev.file.null /\ ~ev.cardFile.null
    /\ ev.file.width >= 800 /\ ev.file.height >= 600 =>
        ev.cardFile.width >= 800 /\ ev.cardFile.height >= 600

====
